---- MODULE Spec2Model ----
(***************************************************************************)
(* Soft deletion helpers of python-soft-delete: the Django variant         *)
(* (src/django.py) and the SQLAlchemy variant (src/sqlalchemy.py).         *)
(*                                                                         *)
(* A table is a sequence of rows; a row's primary key is its position.     *)
(* A deployment runs one of the two variants (variable `variant`).         *)
(* A queryset / query result is the set of primary keys it returns.        *)
(***************************************************************************)
EXTENDS Integers, Sequences, FiniteSets, TLC

VARIABLES
    variant,        \* "django" or "sqlalchemy"
    table,          \* rows of SampleModel: [unique_name, deleted_at]
    deps,           \* rows of the dependent model: [sample, deleted_at]
    depConf,        \* how the dependent model is declared (Django)
    dbClock,        \* the last reading of the database server's clock
    last,           \* history: the last operation and its arguments
    loaded,         \* model instances held in application memory: pk -> deleted_at
    hooks,          \* number of per-row lifecycle hooks (save/delete signals) fired
    registry,       \* the app registry handed to the consistency check
    ignore_models,  \* the check's ignore list (model names)
    checkResult,    \* outcome of check_model_object_manager
    stmts,          \* per database client: the UPDATE statement in flight
    completed       \* predicates of the soft_delete calls that have returned

vars == <<variant, table, deps, depConf, dbClock, last, loaded, hooks,
          registry, ignore_models, checkResult, stmts, completed>>

----------------------------------------------------------------------------
(* Bounds of the model *)

MaxRows == 2
MaxDeps == 2
MaxClock == 3
MaxModels == 2

(* deleted_at = None: "not deleted".  Clock readings are >= 1. *)
NULL == 0

Variants == {"django", "sqlalchemy"}
Names == {"a", "b"}
Times == 1..MaxClock

----------------------------------------------------------------------------
(* Filter predicates: the positional and keyword arguments of filter *)

All == [f |-> "all", id |-> 0, name |-> "", isnull |-> FALSE]
ById(i) == [f |-> "id", id |-> i, name |-> "", isnull |-> FALSE]
ByName(n) == [f |-> "unique_name", id |-> 0, name |-> n, isnull |-> FALSE]
DeletedIsNull(b) == [f |-> "deleted_at__isnull", id |-> 0, name |-> "", isnull |-> b]

Preds ==
    {All} \cup {ById(i) : i \in 1..MaxRows} \cup {ByName(n) : n \in Names}
          \cup {DeletedIsNull(b) : b \in BOOLEAN}

(* Does the row with primary key pk satisfy predicate p? *)
Matches(tbl, pk, p) ==
    CASE p.f = "all" -> TRUE
      [] p.f = "id" -> pk = p.id
      [] p.f = "unique_name" -> tbl[pk].unique_name = p.name
      [] p.f = "deleted_at__isnull" -> (tbl[pk].deleted_at = NULL) = p.isnull

(* QuerySet.filter / Query.filter: narrow a set of rows by a predicate *)
Filter(tbl, qs, p) == {pk \in qs : Matches(tbl, pk, p)}

(* Faulty variant: the rows are removed (a DELETE) instead of updated *)
Update_AsDelete(tbl, qs, t) ==
    SelectSeq(tbl, LAMBDA r : \E pk \in DOMAIN tbl \ qs : tbl[pk] = r)

(* Faulty variant: a row that is already stamped is restored instead *)
Update_Toggle(tbl, qs, t) ==
    [pk \in DOMAIN tbl |->
        IF pk \in qs
        THEN [tbl[pk] EXCEPT !.deleted_at = IF @ = NULL THEN t ELSE NULL]
        ELSE tbl[pk]]

(* QuerySet.update / Query.update: one bulk UPDATE of deleted_at *)
Update(tbl, qs, t) ==
    [pk \in DOMAIN tbl |->
        IF pk \in qs THEN [tbl[pk] EXCEPT !.deleted_at = t] ELSE tbl[pk]]

(* Faulty variant: the update is also applied to the instances in memory         *)
(* (synchronize_session="evaluate")                                        *)
Synchronize_Evaluate(ld, qs, t) ==
    [pk \in DOMAIN ld |-> IF pk \in qs THEN t ELSE ld[pk]]

(* What the bulk update does to the instances already in memory:          *)
(* synchronize_session=False, and QuerySet.update, leave them alone.       *)
Synchronize(ld, qs, t) == ld

(* Faulty variant: every matched row is saved through its instance *)
BulkHooks_PerRow(qs) == Cardinality(qs)

(* Per-row lifecycle hooks a bulk update fires: none *)
BulkHooks(qs) == 0

----------------------------------------------------------------------------
(* Django variant *)

(* models.Manager.get_queryset: every stored row *)
Manager_get_queryset(tbl) == DOMAIN tbl

(* Faulty variant: the manager forgets its filter *)
SoftDeletionManager_get_queryset_NoFilter(tbl) == Manager_get_queryset(tbl)

(* SoftDeletionManager.get_queryset *)
SoftDeletionManager_get_queryset(tbl) ==
    Filter(tbl, Manager_get_queryset(tbl), DeletedIsNull(TRUE))

(* SoftDeletionManager.soft_delete: the rows the UPDATE touches *)
SoftDeletionManager_soft_delete_rows(tbl, p) ==
    Filter(tbl, Manager_get_queryset(tbl), p)

(* SoftDeletionModel.objects / SoftDeletionModel.all_objects *)
SoftDeletionModel_objects(tbl) == SoftDeletionManager_get_queryset(tbl)
SoftDeletionModel_all_objects(tbl) == Manager_get_queryset(tbl)

----------------------------------------------------------------------------
(* SQLAlchemy variant *)

(* Mapped classes; PlainModel does not mix in SoftDeletionBase and holds  *)
(* one row.                                                              *)
Entities == {"SampleModel", "PlainModel"}
hasattr_deleted_at(e) == e = "SampleModel"
PlainRows == {1}
EntityLists ==
    { <<"SampleModel">>, <<"PlainModel">>,
      <<"SampleModel", "PlainModel">>, <<"PlainModel", "SampleModel">> }

(* Faulty variant: the filtered query is built but not kept (query = ... dropped) *)
SoftDeletionSession_query_NoFilter(entities) ==
    [entities |-> entities, criteria |-> {}]

(* SoftDeletionSession.query: a query is its entities and, per position,  *)
(* the criteria attached to it.                                            *)
SoftDeletionSession_query(entities) ==
    [entities |-> entities,
     criteria |-> {[pos |-> k, p |-> DeletedIsNull(TRUE)] :
                     k \in {j \in DOMAIN entities : hasattr_deleted_at(entities[j])}}]

(* Query.filter on a single-entity query *)
Query_filter(q, p) ==
    [q EXCEPT !.criteria = @ \cup {[pos |-> 1, p |-> p]}]

EntityRows(tbl, e) == IF e = "SampleModel" THEN DOMAIN tbl ELSE PlainRows

(* The result tuples of a query: one row per entity, all criteria holding *)
Query_all(tbl, q) ==
    {tup \in [DOMAIN q.entities -> DOMAIN tbl \cup PlainRows] :
        /\ \A k \in DOMAIN q.entities : tup[k] \in EntityRows(tbl, q.entities[k])
        /\ \A c \in q.criteria : Matches(tbl, tup[c.pos], c.p)}

(* SoftDeletionQuery.soft_delete: the rows the UPDATE touches *)
SoftDeletionQuery_soft_delete_rows(tbl, q, p) ==
    {tup[1] : tup \in Query_all(tbl, Query_filter(q, p))}

----------------------------------------------------------------------------
(* The default and the unfiltered access path of SampleModel, per variant *)

DefaultPath(v, tbl) ==
    IF v = "django" THEN SoftDeletionModel_objects(tbl)
    ELSE {tup[1] : tup \in Query_all(tbl, SoftDeletionSession_query(<<"SampleModel">>))}

(* The rows one soft_delete(p) updates *)
SoftDeleteRows(v, tbl, p) ==
    IF v = "django" THEN SoftDeletionManager_soft_delete_rows(tbl, p)
    ELSE SoftDeletionQuery_soft_delete_rows(
             tbl, SoftDeletionSession_query(<<"SampleModel">>), p)

Deleted(tbl) == {pk \in DOMAIN tbl : tbl[pk].deleted_at # NULL}

----------------------------------------------------------------------------
(* Django: dependent models and their managers *)

Manager == [type |-> "Manager", query_param |-> ""]
SoftDeletionManager == [type |-> "SoftDeletionManager", query_param |-> ""]
(* DeletedFilterManager(query_param); "" stands for the default None *)
DeletedFilterManager(qp) == [type |-> "DeletedFilterManager", query_param |-> qp]

(* The value a lookup path yields for dependent row d *)
Lookup(tbl, dps, d, path) ==
    CASE path = "sample__deleted_at" -> tbl[dps[d].sample].deleted_at
      [] path = "deleted_at" -> dps[d].deleted_at

(* Faulty variant: the truth test of query_param is inverted *)
DeletedFilterManager_get_queryset_Inverted(qp, tbl, dps) ==
    IF qp = ""
    THEN {d \in DOMAIN dps : Lookup(tbl, dps, d, "sample__deleted_at") = NULL}
    ELSE DOMAIN dps

(* DeletedFilterManager.get_queryset *)
DeletedFilterManager_get_queryset(qp, tbl, dps) ==
    IF qp # ""
    THEN {d \in Manager_get_queryset(dps) : Lookup(tbl, dps, d, qp) = NULL}
    ELSE Manager_get_queryset(dps)

(* The declarations of the dependent model: SampleModelWithForeignKey as   *)
(* in the source, and the same model with other default managers.          *)
SampleModelWithForeignKey ==
    [soft |-> FALSE, objects |-> DeletedFilterManager("sample__deleted_at")]
DepConfs ==
    { SampleModelWithForeignKey,
      [soft |-> FALSE, objects |-> DeletedFilterManager("")],
      [soft |-> FALSE, objects |-> Manager],
      [soft |-> TRUE, objects |-> SoftDeletionManager] }

(* <dependent model>.objects and .all_objects *)
Dep_objects(conf, tbl, dps) ==
    CASE conf.objects.type = "Manager" -> Manager_get_queryset(dps)
      [] conf.objects.type = "SoftDeletionManager" ->
             SoftDeletionManager_get_queryset(dps)
      [] conf.objects.type = "DeletedFilterManager" ->
             DeletedFilterManager_get_queryset(conf.objects.query_param, tbl, dps)
Dep_all_objects(dps) == Manager_get_queryset(dps)

----------------------------------------------------------------------------
(* Django: the consistency check *)

(* Strings the check inspects are sequences of characters. *)
AppPrefix == <<"a", "p", "p", ".">>
AppNames ==
    { <<"a", "p", "p", ".", "x">>,
      <<"a", "p", "p">>,
      <<"m", "y", "a", "p", "p", ".", "x">> }

(* Faulty variant: the end of the string is compared (endswith) *)
startswith_Suffix(str, prefix) ==
    /\ Len(str) >= Len(prefix)
    /\ SubSeq(str, Len(str) - Len(prefix) + 1, Len(str)) = prefix

(* str.startswith *)
startswith(str, prefix) ==
    /\ Len(str) >= Len(prefix)
    /\ SubSeq(str, 1, Len(prefix)) = prefix

(* Fields of a model: [type, remote_soft], remote_soft telling whether a   *)
(* foreign key's remote model is a SoftDeletionModel subclass.             *)
AutoField == [type |-> "AutoField", remote_soft |-> FALSE]
FKPlain == [type |-> "ForeignKey", remote_soft |-> FALSE]
FKSoft == [type |-> "ForeignKey", remote_soft |-> TRUE]
FieldSets == { {AutoField}, {AutoField, FKPlain}, {AutoField, FKSoft} }

(* Faulty variant: all() where the check uses any() *)
has_soft_delete_All(model) ==
    \A field \in model.fields : field.type = "ForeignKey" /\ field.remote_soft

(* lines 29-33: any foreign key to a SoftDeletionModel subclass *)
has_soft_delete(model) ==
    \E field \in model.fields : field.type = "ForeignKey" /\ field.remote_soft

(* Faulty variant: the ignore list is not consulted *)
Offends_NoIgnore(model, ignore) ==
    has_soft_delete(model) /\ model.objects.type = "Manager"

(* lines 26-35: the model makes the check raise *)
Offends(model, ignore) ==
    /\ model.name \notin ignore
    /\ has_soft_delete(model)
    /\ model.objects.type = "Manager"

(* Apps.get_app_configs: the app labels in order of first registration *)
RECURSIVE get_app_configs(_)
get_app_configs(reg) ==
    IF reg = <<>> THEN <<>>
    ELSE LET rest == get_app_configs(SubSeq(reg, 1, Len(reg) - 1))
             app == reg[Len(reg)].app
         IN  IF \E k \in DOMAIN rest : rest[k] = app THEN rest ELSE Append(rest, app)

(* AppConfig.get_models: the models of one app, in registration order *)
get_models(reg, app) == SelectSeq(reg, LAMBDA m : m.app = app)

Returned == [status |-> "returned", model |-> ""]
Raised(name) == [status |-> "raised", model |-> name]
NotRun == [status |-> "notrun", model |-> ""]

(* lines 25-40: the inner loop, over the models of one app *)
RECURSIVE check_models_of(_, _)
check_models_of(models, ignore) ==
    IF models = <<>> THEN Returned
    ELSE IF Offends(Head(models), ignore) THEN Raised(Head(models).name)
    ELSE check_models_of(Tail(models), ignore)

(* lines 21-40: the outer loop, over the app configs *)
RECURSIVE check_apps(_, _, _)
check_apps(apps, reg, ignore) ==
    IF apps = <<>> THEN Returned
    ELSE IF ~startswith(Head(apps), AppPrefix) THEN check_apps(Tail(apps), reg, ignore)
    ELSE LET r == check_models_of(get_models(reg, Head(apps)), ignore)
         IN  IF r.status = "raised" THEN r ELSE check_apps(Tail(apps), reg, ignore)

(* check_model_object_manager(django_apps, ignore_models) *)
check_model_object_manager(django_apps, ignore) ==
    check_apps(get_app_configs(django_apps), django_apps, ignore)

(* The registry of the application that declares SampleModel and the      *)
(* dependent model.                                                        *)
SampleApp == <<"a", "p", "p", ".", "s", "a", "m", "p", "l", "e">>
RegistryOf(conf) ==
    << [name |-> "SampleModel", app |-> SampleApp,
        fields |-> {AutoField}, objects |-> SoftDeletionManager],
       [name |-> "SampleModelWithForeignKey", app |-> SampleApp,
        fields |-> {AutoField, FKSoft}, objects |-> conf.objects] >>

----------------------------------------------------------------------------
(* Actions *)

NoOp == [op |-> "init", p |-> All, again |-> FALSE]

InitRest ==
    /\ deps = <<>>
    /\ depConf = SampleModelWithForeignKey
    /\ loaded = <<>>
    /\ hooks = 0
    /\ registry = <<>>
    /\ ignore_models = {}
    /\ checkResult = NotRun
    /\ stmts = <<>>
    /\ completed = {}

Init ==
    /\ variant \in Variants
    /\ table = <<>>
    /\ dbClock = 1
    /\ last = NoOp
    /\ InitRest

(* A row is created with deleted_at = None (default=None / nullable column); *)
(* saving an instance fires its per-row hooks.                               *)
Create(n) ==
    /\ checkResult.status # "raised"
    /\ Len(table) < MaxRows
    /\ table' = Append(table, [unique_name |-> n, deleted_at |-> NULL])
    /\ hooks' = hooks + 1
    /\ last' = [op |-> "create", p |-> All, again |-> FALSE]
    /\ UNCHANGED <<variant, deps, depConf, dbClock, loaded, registry,
                   ignore_models, checkResult, stmts, completed>>

(* soft_delete(p), run by a single client: the statement is executed when  *)
(* it is issued, at database time t.                                        *)
soft_delete(p, t) ==
    /\ checkResult.status # "raised"
    /\ t \in dbClock..MaxClock
    /\ dbClock' = t
    /\ table' = Update(table, SoftDeleteRows(variant, table, p), t)
    /\ loaded' = Synchronize(loaded, SoftDeleteRows(variant, table, p), t)
    /\ hooks' = hooks + BulkHooks(SoftDeleteRows(variant, table, p))
    /\ last' = [op |-> "soft_delete", p |-> p,
                 again |-> last.op = "soft_delete" /\ last.p = p]
    /\ UNCHANGED <<variant, deps, depConf, registry,
                   ignore_models, checkResult, stmts, completed>>

(* A dependent row referencing SampleModel row fk is created. *)
CreateDep(fk) ==
    /\ checkResult.status # "raised"
    /\ Len(deps) < MaxDeps
    /\ fk \in DOMAIN table
    /\ deps' = Append(deps, [sample |-> fk, deleted_at |-> NULL])
    /\ hooks' = hooks + 1
    /\ last' = [op |-> "create_dep", p |-> All, again |-> FALSE]
    /\ UNCHANGED <<variant, table, depConf, dbClock, loaded, registry,
                   ignore_models, checkResult, stmts, completed>>

(* soft_delete(p) on a dependent model that is itself a SoftDeletionModel *)
dep_soft_delete(p, t) ==
    /\ checkResult.status # "raised"
    /\ depConf.soft
    /\ t \in dbClock..MaxClock
    /\ dbClock' = t
    /\ deps' = Update(deps, SoftDeletionManager_soft_delete_rows(deps, p), t)
    /\ last' = [op |-> "dep_soft_delete", p |-> p, again |-> FALSE]
    /\ UNCHANGED <<variant, table, depConf, loaded, hooks, registry,
                   ignore_models, checkResult, stmts, completed>>

(* check_models: the post_migrate receiver, with an empty ignore list.    *)
(* ImproperlyConfigured halts the application.                             *)
check_models ==
    /\ checkResult.status = "notrun"
    /\ checkResult' = check_model_object_manager(registry, {})
    /\ last' = [op |-> "check_models", p |-> All, again |-> FALSE]
    /\ UNCHANGED <<variant, table, deps, depConf, dbClock, loaded, hooks,
                   registry, ignore_models, stmts, completed>>

(* A direct call check_model_object_manager(registry, ignore_models) *)
call_check_model_object_manager ==
    /\ checkResult.status = "notrun"
    /\ checkResult' = check_model_object_manager(registry, ignore_models)
    /\ last' = [op |-> "check", p |-> All, again |-> FALSE]
    /\ UNCHANGED <<variant, table, deps, depConf, dbClock, loaded, hooks,
                   registry, ignore_models, stmts, completed>>

(* An instance is fetched through the default access path and kept in    *)
(* application memory (Django instance / session identity map).            *)
Load(pk) ==
    /\ checkResult.status # "raised"
    /\ pk \in DefaultPath(variant, table)
    /\ loaded' = [k \in DOMAIN loaded \cup {pk} |->
                    IF k = pk THEN table[pk].deleted_at ELSE loaded[k]]
    /\ last' = [op |-> "load", p |-> All, again |-> FALSE]
    /\ UNCHANGED <<variant, table, deps, depConf, dbClock, hooks, registry,
                   ignore_models, checkResult, stmts, completed>>

(* An instance is fetched through Django's all_objects. *)
LoadUnfiltered(pk) ==
    /\ checkResult.status # "raised"
    /\ variant = "django"
    /\ pk \in SoftDeletionModel_all_objects(table)
    /\ loaded' = [k \in DOMAIN loaded \cup {pk} |->
                    IF k = pk THEN table[pk].deleted_at ELSE loaded[k]]
    /\ last' = [op |-> "load_all", p |-> All, again |-> FALSE]
    /\ UNCHANGED <<variant, table, deps, depConf, dbClock, hooks, registry,
                   ignore_models, checkResult, stmts, completed>>

(* Several database clients.  A client's soft_delete(p) sends one UPDATE   *)
(* statement; the database starts it at time t and applies it later, in    *)
(* one step.  floor records the largest deleted_at stored when the         *)
(* statement started.                                                      *)
Clients == {"c1", "c2"}
ConcPreds == {All, ById(1)}
Idle == [state |-> "idle", p |-> All, start |-> 0, floor |-> 0]

MaxStamp(tbl) ==
    IF Deleted(tbl) = {} THEN NULL
    ELSE CHOOSE m \in {tbl[pk].deleted_at : pk \in Deleted(tbl)} :
           \A pk \in Deleted(tbl) : tbl[pk].deleted_at <= m

(* Faulty variant: the application's clock, which lags on client c2 *)
StampOf_AppClock(v, c, start, at) ==
    IF c = "c1" \/ at = 1 THEN at ELSE at - 1

(* models.functions.Now(): the time the statement started *)
Now(start, at) == start

(* func.clock_timestamp(): the time at which it is evaluated *)
clock_timestamp(start, at) == at

(* The value the statement of client c stores in deleted_at *)
StampOf(v, c, start, at) ==
    IF v = "django" THEN Now(start, at) ELSE clock_timestamp(start, at)

Issue(c, p, t) ==
    /\ stmts[c].state = "idle"
    /\ t \in dbClock..MaxClock
    /\ dbClock' = t
    /\ stmts' = [stmts EXCEPT ![c] =
                   [state |-> "running", p |-> p, start |-> t,
                    floor |-> MaxStamp(table)]]
    /\ last' = [op |-> "issue", p |-> p, again |-> FALSE]
    /\ UNCHANGED <<variant, table, deps, depConf, loaded, hooks, registry,
                   ignore_models, checkResult, completed>>

Apply(c, t) ==
    /\ stmts[c].state = "running"
    /\ t \in dbClock..MaxClock
    /\ dbClock' = t
    /\ LET rows == SoftDeleteRows(variant, table, stmts[c].p)
           stamp == StampOf(variant, c, stmts[c].start, t)
       IN  /\ table' = Update(table, rows, stamp)
           /\ loaded' = Synchronize(loaded, rows, stamp)
           /\ hooks' = hooks + BulkHooks(rows)
    /\ stmts' = [stmts EXCEPT ![c] = Idle]
    /\ completed' = completed \cup {stmts[c].p}
    /\ last' = [op |-> "apply", p |-> stmts[c].p, again |-> FALSE]
    /\ UNCHANGED <<variant, deps, depConf, registry, ignore_models, checkResult>>

Next ==
    \/ \E n \in Names : Create(n)
    \/ \E p \in Preds, t \in Times : soft_delete(p, t)

Spec == Init /\ [][Next]_vars

(* The Django application with a dependent model *)
DepPreds == {All} \cup {ById(i) : i \in 1..MaxRows}

InitDep ==
    /\ variant = "django"
    /\ table = <<>>
    /\ deps = <<>>
    /\ depConf \in DepConfs
    /\ registry = RegistryOf(depConf)
    /\ ignore_models = {}
    /\ checkResult = NotRun
    /\ dbClock = 1
    /\ last = NoOp
    /\ loaded = <<>>
    /\ hooks = 0
    /\ stmts = <<>>
    /\ completed = {}

(* The filters of the managers test deleted_at for None only, so every     *)
(* statement here runs at the same database time.                          *)
NextDep ==
    \/ Create("a")
    \/ \E fk \in 1..MaxRows : CreateDep(fk)
    \/ \E p \in DepPreds : soft_delete(p, dbClock)
    \/ \E p \in DepPreds : dep_soft_delete(p, dbClock)
    \/ check_models

SpecDep == InitDep /\ [][NextDep]_vars

(* The consistency check on arbitrary registries *)
NameOf(i) == <<"M1", "M2", "M3", "M4", "M5">>[i]
ModelKinds ==
    [app : AppNames, fields : FieldSets,
     objects : {Manager, SoftDeletionManager, DeletedFilterManager("sample__deleted_at")}]
Registries ==
    UNION { { [i \in 1..n |->
                 [name |-> NameOf(i), app |-> f[i].app,
                  fields |-> f[i].fields, objects |-> f[i].objects]] :
              f \in [1..n -> ModelKinds] } : n \in 0..MaxModels }

InitCheck ==
    /\ registry \in Registries
    /\ ignore_models \in SUBSET {registry[i].name : i \in DOMAIN registry}
    /\ checkResult = NotRun
    /\ variant = "django"
    /\ table = <<>>
    /\ deps = <<>>
    /\ depConf = SampleModelWithForeignKey
    /\ dbClock = 1
    /\ last = NoOp
    /\ loaded = <<>>
    /\ hooks = 0
    /\ stmts = <<>>
    /\ completed = {}

NextCheck == call_check_model_object_manager

SpecCheck == InitCheck /\ [][NextCheck]_vars

(* Instances in application memory *)
NextCache ==
    \/ Create("a")
    \/ \E pk \in 1..MaxRows : Load(pk)
    \/ \E pk \in 1..MaxRows : LoadUnfiltered(pk)
    \/ \E p \in DepPreds, t \in Times : soft_delete(p, t)

SpecCache == Init /\ [][NextCache]_vars

(* Concurrent clients on a table of MaxRows live rows *)
InitConc ==
    /\ variant \in Variants
    /\ table = [pk \in 1..MaxRows |-> [unique_name |-> "a", deleted_at |-> NULL]]
    /\ stmts = [c \in Clients |-> Idle]
    /\ completed = {}
    /\ dbClock = 1
    /\ last = NoOp
    /\ deps = <<>>
    /\ depConf = SampleModelWithForeignKey
    /\ loaded = <<>>
    /\ hooks = 0
    /\ registry = <<>>
    /\ ignore_models = {}
    /\ checkResult = NotRun

NextConc ==
    \/ \E c \in Clients, p \in ConcPreds, t \in Times : Issue(c, p, t)
    \/ \E c \in Clients, t \in Times : Apply(c, t)

SpecConc == InitConc /\ [][NextConc]_vars

----------------------------------------------------------------------------
(* Properties of soft deletion on SampleModel (specification Spec) *)

C7_SetExactlyOnce ==
    [][\A pk \in DOMAIN table :
         table[pk].deleted_at # NULL =>
           table'[pk].deleted_at = table[pk].deleted_at]_vars

(* C7 amended: a row is created with deleted_at null; once non-null it     *)
(* never returns to null; in the SQLAlchemy variant its value never        *)
(* changes again, in the Django variant it changes only when a later       *)
(* soft_delete matches the row, which overwrites it with that statement's  *)
(* clock reading.                                                          *)
C7_NeverBackToNull ==
    [][/\ \A pk \in DOMAIN table' \ DOMAIN table : table'[pk].deleted_at = NULL
       /\ \A pk \in DOMAIN table :
             table[pk].deleted_at # NULL =>
               /\ table'[pk].deleted_at # NULL
               /\ variant = "sqlalchemy" =>
                     table'[pk].deleted_at = table[pk].deleted_at
               /\ table'[pk].deleted_at # table[pk].deleted_at =>
                     /\ last'.op = "soft_delete"
                     /\ Matches(table, pk, last'.p)
                     /\ table'[pk].deleted_at = dbClock']_vars

C7_Witness ==
    /\ last.op = "soft_delete"
    /\ last.again
    /\ \E pk \in DOMAIN table :
          table[pk].deleted_at # NULL /\ Matches(table, pk, last.p)

(* C8: a second soft_delete(p) right after the first leaves the set of     *)
(* soft-deleted rows, and so the results of the default and the unfiltered *)
(* access path, as they were; a row differs at most in that a matching,    *)
(* already stamped row carries the later clock reading.                    *)
C8_Idempotent ==
    [][last'.again =>
         /\ DOMAIN table' = DOMAIN table
         /\ Deleted(table') = Deleted(table)
         /\ DefaultPath(variant, table') = DefaultPath(variant, table)
         /\ SoftDeletionModel_all_objects(table') = SoftDeletionModel_all_objects(table)
         /\ \A pk \in DOMAIN table :
               \/ table'[pk] = table[pk]
               \/ /\ Matches(table, pk, last'.p)
                  /\ table[pk].deleted_at # NULL
                  /\ table'[pk].deleted_at >= table[pk].deleted_at
                  /\ table'[pk].unique_name = table[pk].unique_name]_vars

C8_Witness ==
    /\ last.again
    /\ variant = "django"
    /\ last.p = ByName("a")
    /\ \E pk \in DOMAIN table :
          table[pk].unique_name = "a" /\ table[pk].deleted_at = dbClock /\ dbClock > 1
    /\ \E pk \in DOMAIN table : table[pk].deleted_at = NULL

----------------------------------------------------------------------------
(* Properties of dependent models (specification SpecDep) *)

ReferencesDeleted(d) == table[deps[d].sample].deleted_at # NULL

(* C3: with objects = DeletedFilterManager("sample__deleted_at"), the      *)
(* dependent's objects returns exactly the rows whose sample is not        *)
(* soft-deleted, so none that references a soft-deleted sample, while      *)
(* all_objects returns every dependent row.                                *)
C3_DependentFiltered ==
    depConf = SampleModelWithForeignKey =>
      /\ \A d \in Dep_objects(depConf, table, deps) : ~ReferencesDeleted(d)
      /\ \A d \in DOMAIN deps :
           ~ReferencesDeleted(d) => d \in Dep_objects(depConf, table, deps)
      /\ \A d \in DOMAIN deps : d \in Dep_all_objects(deps)

C3_Witness ==
    /\ depConf = SampleModelWithForeignKey
    /\ last.op = "soft_delete"
    /\ \E d \in DOMAIN deps :
         ReferencesDeleted(d) /\ d \in Dep_all_objects(deps)
    /\ Dep_objects(depConf, table, deps) # {}

(* C6 as stated: whenever the check has returned without raising, the      *)
(* dependent model's objects returns no row whose sample is soft-deleted.  *)
C6_CheckImpliesFiltering ==
    checkResult.status = "returned" =>
      \A d \in Dep_objects(depConf, table, deps) : ~ReferencesDeleted(d)

(* C6 amended: whenever the check has returned without raising, the        *)
(* dependent model's objects manager is not the plain models.Manager; its  *)
(* results exclude the rows referencing a soft-deleted sample when it is   *)
(* DeletedFilterManager constructed with the lookup path to the sample's   *)
(* deleted_at.                                                             *)
C6_CheckImpliesOverride ==
    checkResult.status = "returned" =>
      /\ depConf.objects.type # "Manager"
      /\ depConf.objects = DeletedFilterManager("sample__deleted_at") =>
           \A d \in Dep_objects(depConf, table, deps) : ~ReferencesDeleted(d)

C6_Witness ==
    /\ checkResult.status = "returned"
    /\ depConf.objects = DeletedFilterManager("")
    /\ \E d \in Dep_objects(depConf, table, deps) : ReferencesDeleted(d)

----------------------------------------------------------------------------
(* Properties of the consistency check (specification SpecCheck) *)

(* A model that is in scope of the check and misconfigured: its app's name *)
(* starts with "app.", it is not ignored, it has a foreign key to a        *)
(* soft-deletable model and its objects is the plain Manager.              *)
Misconfigured(m) ==
    /\ Len(m.app) >= 4
    /\ m.app[1] = "a" /\ m.app[2] = "p" /\ m.app[3] = "p" /\ m.app[4] = "."
    /\ m.name \notin ignore_models
    /\ FKSoft \in m.fields
    /\ m.objects = Manager

(* C4: when the registry holds a misconfigured model, the check raises     *)
(* ImproperlyConfigured (it does not return) and the error names a         *)
(* misconfigured model.                                                    *)
C4_RaisesOnMisconfigured ==
    (checkResult.status # "notrun"
       /\ \E i \in DOMAIN registry : Misconfigured(registry[i])) =>
      /\ checkResult.status = "raised"
      /\ \E i \in DOMAIN registry :
           Misconfigured(registry[i]) /\ registry[i].name = checkResult.model

C4_Witness ==
    /\ checkResult.status = "raised"
    /\ Len(registry) = 2
    /\ ~Misconfigured(registry[1])
    /\ Misconfigured(registry[2])
    /\ checkResult.model = registry[2].name

(* C5: the check never raises on account of a model that is ignored, has   *)
(* an objects manager other than the plain Manager, has no foreign key to  *)
(* a soft-deletable model, or belongs to an app outside "app.": when every *)
(* registered model is such a model the check returns silently, and a      *)
(* model it names when it raises is none of them.                          *)
C5_SilentOnExempt ==
    checkResult.status # "notrun" =>
      /\ (\A i \in DOMAIN registry : ~Misconfigured(registry[i])) =>
           checkResult = Returned
      /\ checkResult.status = "raised" =>
           \A i \in DOMAIN registry :
             registry[i].name = checkResult.model => Misconfigured(registry[i])

C5_Witness ==
    /\ checkResult = Returned
    /\ Len(registry) = 2
    /\ registry[1].name \in ignore_models
    /\ registry[1].objects = Manager /\ FKSoft \in registry[1].fields
    /\ registry[1].app = <<"a", "p", "p", ".", "x">>
    /\ registry[2].objects = Manager /\ FKSoft \in registry[2].fields
    /\ registry[2].app = <<"m", "y", "a", "p", "p", ".", "x">>

----------------------------------------------------------------------------
(* Properties of instances in memory (specification SpecCache) *)

(* C10: a soft_delete(p) step fires no per-row lifecycle hook and leaves   *)
(* every instance in memory as it was: an instance loaded with deleted_at  *)
(* null still holds null although its stored row is now stamped and gone   *)
(* from the default access path.                                           *)
C10_BypassesInstances ==
    [][last'.op = "soft_delete" =>
         /\ hooks' = hooks
         /\ loaded' = loaded
         /\ \A pk \in DOMAIN loaded :
              (loaded[pk] = NULL /\ Matches(table, pk, last'.p)) =>
                /\ loaded'[pk] = NULL
                /\ table'[pk].deleted_at # NULL
                /\ pk \notin DefaultPath(variant, table')]_vars

C10_Witness ==
    /\ last.op = "soft_delete"
    /\ hooks = Len(table)
    /\ \E pk \in DOMAIN loaded :
         /\ loaded[pk] = NULL
         /\ table[pk].deleted_at # NULL
         /\ pk \notin DefaultPath(variant, table)

----------------------------------------------------------------------------
(* Properties of concurrent soft deletion (specification SpecConc) *)

(* The client whose statement the step applies, and that statement *)
Applier == CHOOSE c \in Clients : stmts[c].state = "running" /\ stmts'[c] = Idle
Restamped == {pk \in DOMAIN table : table'[pk].deleted_at # table[pk].deleted_at}

(* Every row matched by a call that has returned is stamped; a statement   *)
(* is applied whole, and touches nothing else.                             *)
AppliedWhole ==
    /\ \A p \in completed' : \A pk \in DOMAIN table' :
         Matches(table', pk, p) => table'[pk].deleted_at # NULL
    /\ last'.op = "apply" =>
         /\ DOMAIN table' = DOMAIN table
         /\ \A pk \in DOMAIN table :
              IF Matches(table, pk, last'.p)
              THEN table'[pk].deleted_at # NULL
              ELSE table'[pk] = table[pk]

====
